---- MODULE Spec2Model ----
(***************************************************************************)
(* A model of src/download.py: the GET helper and the four operations      *)
(* built on it (panorama id pagination, panorama image fetch, building     *)
(* search, building polygon extraction).  The remote servers are the       *)
(* environment: every response is drawn from a bounded set when the        *)
(* request is issued.                                                      *)
(***************************************************************************)
EXTENDS Integers, Sequences, FiniteSets, TLC

\* ------------------------------------------------------------- bounds
NPages == 3
MaxBuildings == 3
MaxPts == 4

\* ---------------------------------------------------- Python / JSON values
\* Every value is a record tagged by t, so that any two values compare.
None == [t |-> "None"]
\* the result of looking up a key a dict does not have
Missing == [t |-> "missing"]
\* a str is its sequence of tokens; the empty str is Str(<<>>)
Str(v) == [t |-> "str", v |-> v]
EmptyStr == Str(<<>>)
List(items) == [t |-> "list", items |-> items]
\* Python truthiness, for the values the code tests (None, str)
Truthy(x) == x.t = "str" /\ Len(x.v) > 0

\* ------------------------------------------------------ call outcomes
Return(v, logged) == [kind |-> "return", value |-> v, exc |-> "", logged |-> logged]
Raise(e) == [kind |-> "raise", value |-> None, exc |-> e, logged |-> FALSE]

\* ----------------------------------------------------- HTTP responses
\* requests.get raised a RequestException (connection error, timeout, ...)
NetError == [t |-> "error", status |-> 0, content |-> Missing]
\* a response body that is not a JSON document
NotJson == [t |-> "bytes", json |-> FALSE, doc |-> Missing]
JsonBytes(doc) == [t |-> "bytes", json |-> TRUE, doc |-> doc]
Http(status, content) == [t |-> "http", status |-> status, content |-> content]
Statuses == {200, 304, 404}
\* the responses a server holding the documents docs can give: a transport
\* error, any status with a non-JSON body, or 200 with one of the documents
Responses(docs) ==
    {NetError} \cup {Http(s, NotJson) : s \in Statuses}
               \cup {Http(200, JsonBytes(d)) : d \in docs}

\* response.raise_for_status(): raises HTTPError for 4xx and 5xx only
RaiseForStatus(status) == 400 <= status /\ status < 600

\* json.loads(response.content)
JsonLoads(content) ==
    IF content.json THEN Return(content.doc, FALSE) ELSE Raise("JSONDecodeError")

\* send_get_request(url), given the response the GET meets: the except clause
\* catches requests.exceptions.RequestException only
SendGetRequest(resp) ==
    IF resp.t = "error" THEN Return(None, TRUE)
    ELSE IF RaiseForStatus(resp.status) THEN Return(None, TRUE)
    ELSE JsonLoads(resp.content)

\* ------------------------------------------------------------- URLs
Years == {2021}
BBoxes == {<<100, 200, 300, 400>>}
PanoBase == "https://api.data.amsterdam.nl/panorama/panoramas/"
ConstructPanoUrl(mission_year, bbox) ==
    Str(<<PanoBase, "?", "tags=mission-", mission_year, "&bbox=",
          bbox[1], ",", bbox[2], ",", bbox[3], ",", bbox[4], "&srid=28992">>)
\* the href of a later page of the same query, as the server writes it
PageUrl(mission_year, bbox, n) ==
    Str(ConstructPanoUrl(mission_year, bbox).v \o <<"&page=", n>>)
PageUrls(mission_year, bbox) ==
    {ConstructPanoUrl(mission_year, bbox)}
        \cup {PageUrl(mission_year, bbox, n) : n \in 2..NPages}

\* ------------------------------------------------ panorama list pages
PanoIds == {"a", "b"}
PanoLists == {<<>>, <<"a">>, <<"a", "b">>, <<"b", "a">>}
\* a page: _embedded.panoramas (the pano_id of each item, or the key
\* missing) and _links.next (missing, null, or a dict with or without href)
Page(panoramas, next) == [t |-> "dict", panoramas |-> panoramas, next |-> next]
Link(href) == [t |-> "dict", href |-> href]
NextFields(urls) ==
    {Missing, None} \cup {Link(h) : h \in {Missing, None, EmptyStr} \cup urls}
PageDocs(urls) ==
    {Page(p, n) : p \in {Missing} \cup {List(l) : l \in PanoLists},
                  n \in NextFields(urls)}

\* ------------------------------------------------ building (BAG) data
\* the threshold of `len(polygon) > 2`
MinPolygonPoints == 2
BagBase == "https://api.data.amsterdam.nl/bag/v1.1/pand/"
\* the detail link of the i-th building summary
DetailUrl(i) == Str(<<BagBase, i, "/">>)
\* a building summary: item['_links']['self'] (or a key on the way missing)
Summary(self) == [t |-> "dict", self |-> self]
SummariesAt(i) == {Summary(Missing), Summary(Link(DetailUrl(i)))}
BuildingData ==
    UNION {{bd \in [1..n -> UNION {SummariesAt(i) : i \in 1..n}] :
                \A i \in 1..n : bd[i] \in SummariesAt(i)} : n \in 0..MaxBuildings}
BuildingIds == {EmptyStr, Str(<<"A">>), Str(<<"B">>)}
\* a polygon (one ring of coordinates): a list of n points
Polygon(n) == List([i \in 1..n |-> <<i, n - i>>])
Polygons == {Polygon(n) : n \in 1..MaxPts}
\* a building detail: pandidentificatie and geometrie.coordinates (a list
\* of rings), either possibly missing
Detail(id, coordinates) ==
    [t |-> "dict", pandidentificatie |-> id, coordinates |-> coordinates]
DetailDocs ==
    {Detail(id, c) : id \in {Missing} \cup BuildingIds,
                     c \in {Missing, List(<<>>)} \cup {List(<<p>>) : p \in Polygons}}

\* the body of the building search: results (or the key missing)
Observers == {<<121000, 487000>>}
Radii == {50}
SearchUrl(observer, radius) ==
    Str(<<BagBase, "?format=json&locatie=", observer[1], "%2C", observer[2], "%2C", radius>>)
SearchDoc(results) == [t |-> "dict", results |-> results]
SearchDocs ==
    {SearchDoc(r) : r \in {Missing, List(<<>>),
                           List(<<Summary(Link(DetailUrl(1)))>>),
                           List(<<Summary(Link(DetailUrl(1))), Summary(Link(DetailUrl(2)))>>)}}

\* --------------------------------------------------- panorama details
PanoDetailUrl(pano_id) == Str(<<PanoBase, pano_id, "/">>)
ImageUrl(pano_id) == Str(<<PanoBase, pano_id, "/equirectangular/medium.jpg">>)
\* a panorama detail: geometry.coordinates and
\* _links.equirectangular_medium.href (or a key on the way missing)
PanoDoc(coordinates, href) == [t |-> "dict", coordinates |-> coordinates, href |-> href]
PanoDocs(pano_id) ==
    {PanoDoc(c, h) : c \in {Missing, List(<<4, 52>>)},
                     h \in {Missing, ImageUrl(pano_id)}}
\* the image resource: a transport error, or a body that decodes as an
\* image or does not, under any status (no raise_for_status on this GET)
ImageBytes(ok) == [t |-> "bytes", image |-> ok]
ImageResponses ==
    {NetError} \cup {Http(s, ImageBytes(ok)) : s \in Statuses, ok \in BOOLEAN}
Tuple(a, b) == [t |-> "tuple", items |-> <<a, b>>]

VARIABLES
    pc,             \* "idle", a position inside the running function, "done", "raised"
    fn,             \* the function called
    args,           \* its arguments
    calls,          \* send_get_request calls so far: [url, resp, out]
    wire,           \* every URL handed to requests.get, in order
    log,            \* number of 'Request failed' lines printed
    pano_url,       \* fetch_panorama_ids: the loop variable
    panorama_ids,   \* fetch_panorama_ids: the accumulator
    idx,            \* fetch_building_polygons: index of the next item
    building_polygons, \* fetch_building_polygons: the dict, as <<key, value>> in insertion order
    pano_data,      \* fetch_panorama_image: the detail
    ret,            \* the value returned (pc = "done")
    exc             \* the exception that left the function (pc = "raised")

vars == <<pc, fn, args, calls, wire, log, pano_url, panorama_ids, idx,
          building_polygons, pano_data, ret, exc>>

idsVars == <<pano_url, panorama_ids>>
polyVars == <<idx, building_polygons>>

\* the response the server gives to url: the one it gave before, when the
\* url was requested before, otherwise any response over docs
ServerResponses(url, docs) ==
    IF \E i \in 1..Len(calls) : calls[i].url = url
    THEN {calls[CHOOSE i \in 1..Len(calls) : calls[i].url = url].resp}
    ELSE Responses(docs)

\* the bookkeeping of one send_get_request(url) call meeting resp
Requested(url, resp) ==
    /\ calls' = Append(calls, [url |-> url, resp |-> resp, out |-> SendGetRequest(resp)])
    /\ wire' = Append(wire, url)
    /\ log' = log + (IF SendGetRequest(resp).logged THEN 1 ELSE 0)

Init ==
    /\ pc = "idle"
    /\ fn = ""
    /\ args = <<>>
    /\ calls = <<>>
    /\ wire = <<>>
    /\ log = 0
    /\ pano_url = None
    /\ panorama_ids = <<>>
    /\ idx = 0
    /\ building_polygons = <<>>
    /\ pano_data = None
    /\ ret = None
    /\ exc = ""

\* ------------------------------------------------- fetch_panorama_ids
\* the loop stops being followed after MaxGets requests (a cyclic chain
\* of next links never ends it)
MaxGets == NPages + 1

\* mutant: the page's ids are put in front of the accumulator
Extend_Prepend(ids, panoramas) == panoramas \o ids

\* panorama_ids.extend([item['pano_id'] for item in panoramas])
Extend(ids, panoramas) == ids \o panoramas

\* data['_links'].get('next', {}).get('href')
NextHref(data) ==
    IF data.next.t = "missing" THEN Return(None, FALSE)
    ELSE IF data.next.t = "None" THEN Raise("AttributeError")
    ELSE IF data.next.href.t = "missing" THEN Return(None, FALSE)
    ELSE Return(data.next.href, FALSE)

\* mutant: `while pano_url is not None:`
LoopTest_NotNone(url) == url.t # "None"

\* `while pano_url:`
LoopTest(url) == Truthy(url)

\* mutant: `continue` in place of `break`
StopOnFailure_Continue ==
    /\ pc' = "ids_loop"
    /\ UNCHANGED <<pano_url, panorama_ids, ret, exc>>

\* `if data is None: break`, then `return panorama_ids`
StopOnFailure ==
    /\ pc' = "done"
    /\ ret' = List(panorama_ids)
    /\ UNCHANGED <<pano_url, panorama_ids, exc>>

CallFetchPanoramaIds ==
    /\ pc = "idle"
    /\ \E y \in Years, b \in BBoxes :
        /\ args' = <<y, b>>
        /\ pano_url' = ConstructPanoUrl(y, b)
    /\ fn' = "fetch_panorama_ids"
    /\ panorama_ids' = <<>>
    /\ pc' = "ids_loop"
    /\ UNCHANGED <<calls, wire, log, polyVars, pano_data, ret, exc>>

\* one iteration of the while loop, and the loop test that follows it
FetchPanoramaIdsIter ==
    /\ pc = "ids_loop"
    /\ Len(calls) < MaxGets
    /\ \E resp \in ServerResponses(pano_url, PageDocs(PageUrls(args[1], args[2]))) :
        LET r == SendGetRequest(resp)
            data == r.value
            href == NextHref(data)
        IN  /\ Requested(pano_url, resp)
            /\ IF r.kind = "raise"
               THEN /\ pc' = "raised" /\ exc' = r.exc
                    /\ UNCHANGED <<pano_url, panorama_ids, ret>>
               ELSE IF data.t = "None"
               THEN StopOnFailure
               ELSE IF data.panoramas.t = "missing"
               THEN /\ pc' = "raised" /\ exc' = "KeyError"
                    /\ UNCHANGED <<pano_url, panorama_ids, ret>>
               ELSE IF href.kind = "raise"
               THEN /\ pc' = "raised" /\ exc' = href.exc
                    /\ panorama_ids' = Extend(panorama_ids, data.panoramas.items)
                    /\ UNCHANGED <<pano_url, ret>>
               ELSE /\ panorama_ids' = Extend(panorama_ids, data.panoramas.items)
                    /\ pano_url' = href.value
                    /\ IF LoopTest(href.value)
                       THEN pc' = "ids_loop" /\ UNCHANGED ret
                       ELSE pc' = "done" /\ ret' = List(panorama_ids')
                    /\ UNCHANGED exc
    /\ UNCHANGED <<fn, args, polyVars, pano_data>>

\* -------------------------------------------- fetch_building_polygons
\* mutant: the comparison is >= instead of >
Retain_AtLeast(polygon, building_id) ==
    Len(polygon.items) >= MinPolygonPoints /\ Truthy(building_id)

\* len(polygon) > 2 and building_id
Retain(polygon, building_id) ==
    Len(polygon.items) > MinPolygonPoints /\ Truthy(building_id)

\* mutant: an existing key keeps its value (setdefault)
DictSet_KeepFirst(d, k, v) ==
    IF \E i \in 1..Len(d) : d[i][1] = k THEN d ELSE Append(d, <<k, v>>)

\* d[k] = v on a dict kept as <<key, value>> pairs in insertion order
DictSet(d, k, v) ==
    IF \E i \in 1..Len(d) : d[i][1] = k
    THEN [i \in 1..Len(d) |-> IF d[i][1] = k THEN <<k, v>> ELSE d[i]]
    ELSE Append(d, <<k, v>>)

Dict(d) == [t |-> "dict", pairs |-> d]

\* the for loop is over: return building_polygons
PolygonsLoopEnd(i, bp) ==
    IF i > Len(args[1])
    THEN pc' = "done" /\ ret' = Dict(bp)
    ELSE pc' = "poly_loop" /\ UNCHANGED ret

\* mutant: `break` in place of `continue`
SkipItem_Break ==
    /\ pc' = "done"
    /\ ret' = Dict(building_polygons)
    /\ UNCHANGED <<polyVars, exc>>

\* `if building_details is None: continue`
SkipItem ==
    /\ idx' = idx + 1
    /\ PolygonsLoopEnd(idx + 1, building_polygons)
    /\ UNCHANGED <<building_polygons, exc>>

CallFetchBuildingPolygons ==
    /\ pc = "idle"
    /\ \E bd \in BuildingData :
        /\ args' = <<bd>>
        /\ IF Len(bd) = 0
           THEN pc' = "done" /\ ret' = Dict(<<>>)
           ELSE pc' = "poly_loop" /\ UNCHANGED ret
    /\ fn' = "fetch_building_polygons"
    /\ idx' = 1
    /\ building_polygons' = <<>>
    /\ UNCHANGED <<calls, wire, log, idsVars, pano_data, exc>>

\* the loop body for an item without item['_links']['self']['href']:
\* the subscript raises before any request
FetchBuildingPolygonsNoLink ==
    /\ pc = "poly_loop"
    /\ args[1][idx].self.t = "missing"
    /\ pc' = "raised"
    /\ exc' = "KeyError"
    /\ UNCHANGED <<fn, args, calls, wire, log, idsVars, polyVars, pano_data, ret>>

\* the loop body for one item with a self link, and the loop test after it
FetchBuildingPolygonsIter ==
    /\ pc = "poly_loop"
    /\ args[1][idx].self.t = "dict"
    /\ \E resp \in ServerResponses(args[1][idx].self.href, DetailDocs) :
        LET r == SendGetRequest(resp)
            building_details == r.value
            building_id == building_details.pandidentificatie
            coordinates == building_details.coordinates
            polygon == coordinates.items[1]
        IN  /\ Requested(args[1][idx].self.href, resp)
            /\ IF r.kind = "raise"
               THEN /\ pc' = "raised" /\ exc' = r.exc
                    /\ UNCHANGED <<polyVars, ret>>
               ELSE IF building_details.t = "None"
               THEN SkipItem
               ELSE IF building_id.t = "missing" \/ coordinates.t = "missing"
               THEN /\ pc' = "raised" /\ exc' = "KeyError"
                    /\ UNCHANGED <<polyVars, ret>>
               ELSE IF Len(coordinates.items) = 0
               THEN /\ pc' = "raised" /\ exc' = "IndexError"
                    /\ UNCHANGED <<polyVars, ret>>
               ELSE /\ building_polygons' =
                          IF Retain(polygon, building_id)
                          THEN DictSet(building_polygons, building_id, polygon)
                          ELSE building_polygons
                    /\ idx' = idx + 1
                    /\ PolygonsLoopEnd(idx + 1, building_polygons')
                    /\ UNCHANGED exc
    /\ UNCHANGED <<fn, args, idsVars, pano_data>>

\* ----------------------------------------------- fetch_panorama_image
\* mutant: `return None`
AbsentPair_Single == None

\* `return None, None`
AbsentPair == Tuple(None, None)

CallFetchPanoramaImage ==
    /\ pc = "idle"
    /\ \E pano_id \in PanoIds : args' = <<pano_id>>
    /\ fn' = "fetch_panorama_image"
    /\ pc' = "img_detail"
    /\ UNCHANGED <<calls, wire, log, idsVars, polyVars, pano_data, ret, exc>>

\* lines 70-75: the detail request, the None check, and the two subscript
\* chains evaluated before the image request is issued
FetchPanoramaImageDetail ==
    /\ pc = "img_detail"
    /\ \E resp \in ServerResponses(PanoDetailUrl(args[1]), PanoDocs(args[1])) :
        LET r == SendGetRequest(resp)
        IN  /\ Requested(PanoDetailUrl(args[1]), resp)
            /\ IF r.kind = "raise"
               THEN /\ pc' = "raised" /\ exc' = r.exc
                    /\ UNCHANGED <<pano_data, ret>>
               ELSE IF r.value.t = "None"
               THEN /\ pc' = "done" /\ ret' = AbsentPair
                    /\ UNCHANGED <<pano_data, exc>>
               ELSE IF r.value.coordinates.t = "missing" \/ r.value.href.t = "missing"
               THEN /\ pc' = "raised" /\ exc' = "KeyError"
                    /\ pano_data' = r.value
                    /\ UNCHANGED ret
               ELSE /\ pc' = "img_image"
                    /\ pano_data' = r.value
                    /\ UNCHANGED <<ret, exc>>
    /\ UNCHANGED <<fn, args, idsVars, polyVars>>

\* line 76-77: requests.get on the image link (no try, no status check),
\* Image.open on the body, return
FetchPanoramaImageGet ==
    /\ pc = "img_image"
    /\ \E resp \in ImageResponses :
        /\ wire' = Append(wire, pano_data.href)
        /\ IF resp.t = "error"
           THEN pc' = "raised" /\ exc' = "RequestException" /\ UNCHANGED ret
           ELSE IF ~resp.content.image
           THEN pc' = "raised" /\ exc' = "UnidentifiedImageError" /\ UNCHANGED ret
           ELSE /\ pc' = "done"
                /\ ret' = Tuple([t |-> "image", from |-> pano_data.href], pano_data.coordinates)
                /\ UNCHANGED exc
    /\ UNCHANGED <<fn, args, calls, log, idsVars, polyVars, pano_data>>

\* --------------------------------------------------- search_buildings
\* mutant: a guard returns None when the request failed
Results_Guarded(value) ==
    IF value.t = "None" THEN Return(None, FALSE)
    ELSE IF value.results.t = "missing" THEN Raise("KeyError")
    ELSE Return(value.results, FALSE)

\* the subscript ['results'] applied to what send_get_request returned
Results(value) ==
    IF value.t = "None" THEN Raise("TypeError")
    ELSE IF value.results.t = "missing" THEN Raise("KeyError")
    ELSE Return(value.results, FALSE)

\* return send_get_request(bag_url)['results']
SearchBuildings ==
    /\ pc = "idle"
    /\ \E observer \in Observers, radius \in Radii :
        /\ args' = <<observer, radius>>
        /\ \E resp \in ServerResponses(SearchUrl(observer, radius), SearchDocs) :
            LET r == SendGetRequest(resp)
            IN  /\ Requested(SearchUrl(observer, radius), resp)
                /\ IF r.kind = "raise"
                   THEN pc' = "raised" /\ exc' = r.exc /\ UNCHANGED ret
                   ELSE IF Results(r.value).kind = "raise"
                   THEN pc' = "raised" /\ exc' = Results(r.value).exc /\ UNCHANGED ret
                   ELSE pc' = "done" /\ ret' = Results(r.value).value /\ UNCHANGED exc
    /\ fn' = "search_buildings"
    /\ UNCHANGED <<idsVars, polyVars, pano_data>>

Next ==
    \/ CallFetchPanoramaIds
    \/ FetchPanoramaIdsIter
    \/ CallFetchBuildingPolygons
    \/ FetchBuildingPolygonsNoLink
    \/ FetchBuildingPolygonsIter
    \/ CallFetchPanoramaImage
    \/ FetchPanoramaImageDetail
    \/ FetchPanoramaImageGet
    \/ SearchBuildings

Spec == Init /\ [][Next]_vars

\* the program is sequential and blocking: once a function has been called,
\* its next step is taken
Running ==
    \/ FetchPanoramaIdsIter
    \/ FetchBuildingPolygonsNoLink
    \/ FetchBuildingPolygonsIter
    \/ FetchPanoramaImageDetail
    \/ FetchPanoramaImageGet
FairSpec == Spec /\ WF_vars(Running)

\* =================================================================
\* Properties.  The definitions below describe the responses met and the
\* results expected from them on their own terms, not through the
\* operators above that model the code's steps.
\* =================================================================
Range(f) == {f[i] : i \in DOMAIN f}

\* the GET failed: a transport error or an error status
GetFailed(resp) == resp.t = "error" \/ (resp.t = "http" /\ resp.status >= 400)
\* the GET succeeded with a JSON document
GotDoc(resp) == resp.t = "http" /\ resp.status \in 200..299 /\ resp.content.json
DocOf(resp) == resp.content.doc

\* a well-formed page: a panorama list, and a next entry that is missing or a dict
PageOk(resp) ==
    GotDoc(resp) /\ DocOf(resp).panoramas.t = "list" /\ DocOf(resp).next.t # "None"
\* the next-page href a well-formed page carries (None when it carries none)
HrefOf(resp) ==
    IF DocOf(resp).next.t = "dict" /\ DocOf(resp).next.href.t = "str"
       /\ DocOf(resp).next.href # EmptyStr
    THEN DocOf(resp).next.href
    ELSE None
\* the ids of the first k pages fetched, concatenated
RECURSIVE IdsOfPages(_)
IdsOfPages(k) ==
    IF k = 0 THEN <<>>
    ELSE IdsOfPages(k - 1) \o DocOf(calls[k].resp).panoramas.items
\* the requests followed the chain: the first goes to the constructed URL,
\* each later one to the href of the page before it
FollowedChain ==
    /\ Len(calls) >= 1 => calls[1].url = ConstructPanoUrl(args[1], args[2])
    /\ \A i \in 1..(Len(calls) - 1) :
          PageOk(calls[i].resp) /\ calls[i + 1].url = HrefOf(calls[i].resp)
InIds == fn = "fetch_panorama_ids"

\* C1: when every page of a finite chain is fetched successfully and only the
\* last carries no next href, fetch_panorama_ids returns the concatenation of
\* the pages' ids, in page order and in each page's own order.
C1_Concatenation ==
    (InIds /\ pc = "done" /\ \A i \in 1..Len(calls) : PageOk(calls[i].resp))
        => /\ ret = List(IdsOfPages(Len(calls)))
           /\ FollowedChain
           /\ HrefOf(calls[Len(calls)].resp) = None
           /\ exc = ""

C1_Witness ==
    /\ InIds /\ pc = "done" /\ Len(calls) = 3
    /\ \A i \in 1..Len(calls) : PageOk(calls[i].resp)
    /\ ret = List(<<"a", "b", "b", "a", "a">>)

\* C2: when the GET for page k fails after pages 1..k-1 succeeded, the call
\* returns the ids of pages 1..k-1 in order, raises nothing, and the failed
\* GET is the last request issued.
C2_PartialOnFailure ==
    \A k \in 1..Len(calls) :
        (InIds /\ GetFailed(calls[k].resp)
               /\ \A i \in 1..(k - 1) : PageOk(calls[i].resp))
            => /\ pc = "done"
               /\ exc = ""
               /\ ret = List(IdsOfPages(k - 1))
               /\ k = Len(calls)
               /\ Len(wire) = k

C2_Witness ==
    /\ InIds /\ pc = "done" /\ Len(calls) = 3
    /\ GetFailed(calls[3].resp)
    /\ ret = List(<<"a", "b", "a">>)

InPolygons == fn = "fetch_building_polygons"
AllLinked == \A i \in 1..Len(args[1]) : args[1][i].self.t = "dict"
\* a well-formed detail: an identifier and at least one ring of coordinates
DetailOk(resp) ==
    /\ GotDoc(resp)
    /\ DocOf(resp).pandidentificatie.t = "str"
    /\ DocOf(resp).coordinates.t = "list"
    /\ Len(DocOf(resp).coordinates.items) >= 1
IdOf(resp) == DocOf(resp).pandidentificatie
PolyOf(resp) == DocOf(resp).coordinates.items[1]
\* a detail that is to be kept: non-empty identifier, 3 points or more
Retainable(resp) ==
    DetailOk(resp) /\ IdOf(resp) # EmptyStr /\ Len(PolyOf(resp).items) >= 3
\* the records fetched so far whose detail is to be kept under identifier id
KeptAs(id) == {i \in 1..Len(calls) : Retainable(calls[i].resp) /\ IdOf(calls[i].resp) = id}
KeptIds == {IdOf(calls[i].resp) : i \in {j \in 1..Len(calls) : Retainable(calls[j].resp)}}
Last(S) == CHOOSE i \in S : \A j \in S : j <= i

\* C3: when every detail fetch succeeds with a well-formed body, an identifier
\* is in the returned mapping exactly when some detail has it non-empty with
\* a polygon of more than 2 points, and every entry is the identifier and
\* the point sequence of such a detail, unmodified.
C3_Filter ==
    (InPolygons /\ pc = "done" /\ AllLinked
        /\ \A i \in 1..Len(calls) : DetailOk(calls[i].resp))
    => /\ Len(calls) = Len(args[1])
       /\ {e[1] : e \in Range(ret.pairs)} = KeptIds
       /\ \A e \in Range(ret.pairs) :
             \E i \in 1..Len(calls) :
                /\ Retainable(calls[i].resp)
                /\ e = <<IdOf(calls[i].resp), PolyOf(calls[i].resp)>>

C3_Witness ==
    /\ InPolygons /\ pc = "done" /\ Len(calls) = 3
    /\ \A i \in 1..3 : DetailOk(calls[i].resp)
    /\ IdOf(calls[1].resp) = Str(<<"A">>) /\ Len(PolyOf(calls[1].resp).items) = 2
    /\ IdOf(calls[2].resp) = Str(<<"B">>) /\ Len(PolyOf(calls[2].resp).items) = 3
    /\ IdOf(calls[3].resp) = EmptyStr /\ Len(PolyOf(calls[3].resp).items) = 4
    /\ ret.pairs = <<<<Str(<<"B">>), PolyOf(calls[2].resp)>>>>

\* C4: failed detail GETs do not abort the batch: every record is requested
\* once, in input order, and the mapping returned is the one the records
\* with successful details produce.
C4_PartialFailure ==
    (InPolygons /\ AllLinked
        /\ \A i \in 1..Len(calls) : GetFailed(calls[i].resp) \/ DetailOk(calls[i].resp))
    => /\ pc # "raised"
       /\ Len(wire) = Len(calls)
       /\ \A i \in 1..Len(calls) :
             wire[i] = args[1][i].self.href /\ calls[i].url = wire[i]
       /\ pc = "done" =>
            /\ Len(calls) = Len(args[1])
            /\ Range(ret.pairs) =
                 {<<id, PolyOf(calls[Last(KeptAs(id))].resp)>> : id \in KeptIds}
            /\ Len(ret.pairs) = Cardinality(KeptIds)

C4_Witness ==
    /\ InPolygons /\ pc = "done" /\ Len(args[1]) = 3 /\ Len(calls) = 3
    /\ Retainable(calls[1].resp) /\ GetFailed(calls[2].resp) /\ Retainable(calls[3].resp)
    /\ IdOf(calls[1].resp) # IdOf(calls[3].resp)
    /\ Len(ret.pairs) = 2

\* C10: at every point of fetch_building_polygons the mapping has one entry
\* per identifier, every entry has a non-empty identifier and more than 2
\* points, and the entry of an identifier is the polygon of the last record
\* so far whose detail was retainable under it.
C10_MappingInvariant ==
    InPolygons =>
        /\ \A i, j \in 1..Len(building_polygons) :
              building_polygons[i][1] = building_polygons[j][1] => i = j
        /\ \A e \in Range(building_polygons) :
              /\ e[1].t = "str" /\ e[1] # EmptyStr
              /\ Len(e[2].items) > 2
              /\ KeptAs(e[1]) # {}
              /\ e[2] = PolyOf(calls[Last(KeptAs(e[1]))].resp)
        /\ {e[1] : e \in Range(building_polygons)} = KeptIds
        /\ pc = "done" => ret = Dict(building_polygons)

C10_Witness ==
    /\ InPolygons /\ pc = "done" /\ Len(calls) = 3
    /\ \A i \in 1..3 : DetailOk(calls[i].resp) /\ IdOf(calls[i].resp) = Str(<<"A">>)
    /\ Len(PolyOf(calls[1].resp).items) = 3
    /\ Len(PolyOf(calls[2].resp).items) = 4
    /\ Len(PolyOf(calls[3].resp).items) = 2
    /\ ret.pairs = <<<<Str(<<"A">>), PolyOf(calls[2].resp)>>>>

InImage == fn = "fetch_panorama_image"

\* C5: when the detail GET of fetch_panorama_image yields None, the call
\* returns (None, None), raises nothing and issues no image GET; an image
\* GET is issued only after a detail GET that returned a document.
C5_AbsentPair ==
    InImage =>
        /\ (Len(calls) >= 1 /\ calls[1].out.kind = "return" /\ calls[1].out.value.t = "None")
              => /\ pc = "done"
                 /\ ret = [t |-> "tuple", items |-> <<None, None>>]
                 /\ exc = ""
                 /\ Len(wire) = 1
        /\ Len(wire) >= 2
              => /\ Len(wire) = 2 /\ Len(calls) = 1
                 /\ calls[1].out.kind = "return" /\ calls[1].out.value.t = "dict"

C5_Witness ==
    /\ InImage /\ pc = "done" /\ Len(wire) = 1
    /\ GetFailed(calls[1].resp)
    /\ ret.t = "tuple" /\ ret.items = <<None, None>>

InSearch == fn = "search_buildings"

\* C8: search_buildings issues one GET; on success it returns the results
\* field of the body; on a failed GET the None is subscripted without a
\* guard and the call ends in an uncaught TypeError.
C8_SearchUnguarded ==
    InSearch =>
        /\ Len(wire) = 1 /\ Len(calls) = 1
        /\ (GotDoc(calls[1].resp) /\ DocOf(calls[1].resp).results.t = "list")
              => pc = "done" /\ ret = DocOf(calls[1].resp).results
        /\ GetFailed(calls[1].resp) => pc = "raised" /\ exc = "TypeError"

C8_Witness ==
    /\ InSearch /\ Len(calls) = 1 /\ GetFailed(calls[1].resp)
    /\ pc = "raised" /\ exc = "TypeError"

\* C6: every send_get_request call has one of two outcomes: on a transport
\* error or a non-2xx status it logs and returns None; on a 2xx response it
\* returns the parsed JSON body; no exception reaches the caller, and each
\* call issues one GET.
C6_TwoOutcomes ==
    /\ \A i \in 1..Len(calls) :
          IF calls[i].resp.t = "error" \/ calls[i].resp.status \notin 200..299
          THEN calls[i].out.kind = "return" /\ calls[i].out.value.t = "None"
               /\ calls[i].out.logged
          ELSE calls[i].out.kind = "return"
               /\ (calls[i].resp.content.json
                     => calls[i].out.value = DocOf(calls[i].resp))
    /\ ~InImage => Len(wire) = Len(calls)

\* C7: in fetch_building_polygons a summary without a self link, or a
\* fetched detail lacking the identifier, lacking the coordinates or with
\* an empty coordinates list, is skipped and the batch does not fail.
C7_MalformedSkipped ==
    (InPolygons /\ \A i \in 1..Len(calls) :
                      GetFailed(calls[i].resp) \/ GotDoc(calls[i].resp))
        => pc # "raised"

\* the last request went to a page already requested: the chain of next
\* links is cyclic
Revisit == InIds /\ \E i \in 1..Len(calls) : calls[i].url = pano_url
LastResp == calls[Len(calls)].resp
\* the last response was neither a failure nor a well-formed page
Malformed == InIds /\ Len(calls) >= 1 /\ ~GetFailed(LastResp) /\ ~PageOk(LastResp)

\* the exits of the pagination loop, and the requests it issues
C9_Exits ==
    InIds =>
        /\ Len(wire) = Len(calls)
        /\ \A i \in 1..Len(calls) : wire[i] = calls[i].url
        /\ FollowedChain
        /\ \A i \in 1..(Len(calls) - 1) : HrefOf(calls[i].resp) # None
        /\ pc = "done" =>
              /\ GetFailed(LastResp) \/ (PageOk(LastResp) /\ HrefOf(LastResp) = None)
              /\ Cardinality({calls[i].url : i \in 1..Len(calls)}) = Len(calls)
        /\ (Len(calls) >= 1 /\ PageOk(LastResp) /\ HrefOf(LastResp) # None)
              => pc = "ids_loop" /\ pano_url = HrefOf(LastResp)
        /\ (Len(calls) >= 1 /\ (GetFailed(LastResp)
                                  \/ (PageOk(LastResp) /\ HrefOf(LastResp) = None)))
              => pc = "done"

\* C9: fetch_panorama_ids leaves the loop exactly when a page carries no
\* next href or a GET fails, issuing one GET per page reached; a call whose
\* responses are failures or well-formed pages returns, unless the chain of
\* next links leads back to a page already requested.
C9_Terminates ==
    /\ []C9_Exits
    /\ (InIds /\ pc = "ids_loop") ~> (pc = "done" \/ Revisit \/ Malformed)

C9_Witness ==
    /\ InIds /\ pc = "done" /\ Len(calls) = 3
    /\ PageOk(LastResp) /\ DocOf(LastResp).next = Link(EmptyStr)
    /\ Cardinality({calls[i].url : i \in 1..Len(calls)}) = 3

====
